---- MODULE Spec2Model ----
(***************************************************************************)
(* Model of the markdown-to-confluence CLI: runCLI (src/cli.js) drives      *)
(* processReferences (src/reference-processor.js) and publishToConfluence  *)
(* (src/confluence-publisher.js) over a document folder.                   *)
(*                                                                         *)
(* Paths are sequences of segments relative to docsFolder; <<>> is         *)
(* docsFolder itself.  A path string "sub/c.md" is <<"sub", "c.md">>, the   *)
(* link target "./b.md" is <<".", "b.md">>.                                 *)
(***************************************************************************)
EXTENDS Integers, Sequences, FiniteSets, TLC

VARIABLES
    files,          \* markdown files under docsFolder: path -> document
    dirs,           \* directories under docsFolder (docsFolder itself excluded)
    cfgFile,        \* content of docsFolder/.markdown-confluence.json
    cmdOut,         \* lines of command_output.txt in the working directory
    pc,             \* position of the run inside runCLI / publishToConfluence
    config,         \* publishToConfluence: the local 'config'
    originalConfig, \* publishToConfluence: the local 'originalConfig'
    output,         \* publishToConfluence: stdout of the first execSync
    hasNewIds,      \* publishToConfluence: result of updatePageIds
    error,          \* the error being propagated ("none" when there is none)
    exitStatus,     \* process exit status of the last finished run (-1: none)
    nextId,         \* the wiki's next unused page identifier
    runs,           \* number of runs started
    cfg0,           \* history: cfgFile as the current run found it, once
                    \* ensureConfig had returned
    files0,         \* history: files when the current run started
    dirs0,          \* history: dirs when the current run started
    published,      \* history: what each publish invocation of the run was given
    steps,          \* history: the steps of the current run, in order
    builtMap,       \* processReferences: the local 'pageMap' of its last call
    env,            \* process.env: the settings the shell exports
    source,         \* frontmatter-utils: the frontmatter and the body to write
    written,        \* frontmatter-utils: the text updateFrontmatter returned
    parsed          \* frontmatter-utils: what parseFrontmatter returned

vars == <<files, dirs, cfgFile, cmdOut, pc, config, originalConfig, output,
          hasNewIds, error, exitStatus, nextId, runs, cfg0, files0, dirs0,
          published, steps, builtMap, env, source, written, parsed>>

----------------------------------------------------------------------------
(* Bounds of the model *)

MaxRuns == 2

\* the longest document body, in characters
MaxBodyLen == 3

----------------------------------------------------------------------------
(* Names and values *)

FIXED_REFS_DIR == "docs-fixed-references"

\* docsFolder/docs-fixed-references, as publishToConfluence and runCLI compute it
fixedFolder == <<FIXED_REFS_DIR>>

\* the only base URL the extraction pattern accepts
CorelBase == "https://coreljira.atlassian.net"

\* the base URL of the README's sample configuration
OtherBase == "https://yourcompany.atlassian.net"

NoVal == "absent"

\* readdirSync order: names in byte order
NameOrder ==
    <<".a.md", "a", "a.md", "b", "b.md", "c", "c.md", FIXED_REFS_DIR,
      "httpd.md", "sub", "z", "z.md">>

NameRank(n) ==
    IF \E i \in 1..Len(NameOrder) : NameOrder[i] = n
    THEN CHOOSE i \in 1..Len(NameOrder) : NameOrder[i] = n
    ELSE 0

\* entry.name.endsWith('.md')
EndsWithMd(n) ==
    n \in {".a.md", "a.md", "b.md", "c.md", "z.md", "httpd.md", "missing.md"}

\* name.replace(/\.md$/, '') and path.basename(name, '.md') on one segment
StripMdName(n) ==
    CASE n = "a.md" -> "a"
      [] n = "b.md" -> "b"
      [] n = "c.md" -> "c"
      [] n = "z.md" -> "z"
      [] n = ".a.md" -> ".a"
      [] n = "httpd.md" -> "httpd"
      [] n = "missing.md" -> "missing"
      [] OTHER -> n

\* p.replace(/\.md$/, '') on a whole path string: only its end can match
StripMd(p) ==
    IF p = <<>> THEN p
    ELSE [p EXCEPT ![Len(p)] = StripMdName(p[Len(p)])]

----------------------------------------------------------------------------
(* Paths *)

IsPrefix(d, p) == Len(d) <= Len(p) /\ SubSeq(p, 1, Len(d)) = d

\* path.relative(d, p) for p inside d
Relative(d, p) == SubSeq(p, Len(d) + 1, Len(p))

RECURSIVE StripLeadingEmpty(_)
StripLeadingEmpty(p) ==
    IF p # <<>> /\ Head(p) = "" THEN StripLeadingEmpty(Tail(p)) ELSE p

RECURSIVE StripTrailingEmpty(_)
StripTrailingEmpty(p) ==
    IF p # <<>> /\ p[Len(p)] = ""
    THEN StripTrailingEmpty(SubSeq(p, 1, Len(p) - 1))
    ELSE p

\* normalizePath: separators are already canonical in a segment sequence;
\* leading and trailing separators are empty first and last segments
normalizePath(p) == StripTrailingEmpty(StripLeadingEmpty(p))

\* the normalisation path.join and path.normalize apply to a relative path:
\* "." and empty segments vanish, ".." removes the segment before it
RECURSIVE NormalizeSegs(_, _)
NormalizeSegs(done, rest) ==
    IF rest = <<>> THEN done
    ELSE LET s == Head(rest) IN
         IF s = "." \/ s = "" THEN NormalizeSegs(done, Tail(rest))
         ELSE IF s = ".." /\ done # <<>> /\ done[Len(done)] # ".."
              THEN NormalizeSegs(SubSeq(done, 1, Len(done) - 1), Tail(rest))
              ELSE NormalizeSegs(Append(done, s), Tail(rest))

\* path.join(baseDir, url); the empty result is "."
PathJoin(baseDir, url) ==
    LET r == NormalizeSegs(<<>>, baseDir \o url) IN
    IF r = <<>> THEN <<".">> ELSE r

\* path.dirname of a relative file path; "." is <<".">>
PathDirname(p) ==
    IF Len(p) <= 1 THEN <<".">> ELSE SubSeq(p, 1, Len(p) - 1)

\* url.replace('./', ''): the first "./" of the string is removed.  It ends a
\* "." segment (the segment vanishes) or a ".." segment (whose first dot is
\* then glued to the next segment)
RECURSIVE ReplaceDotSlash(_)
ReplaceDotSlash(p) ==
    IF Len(p) <= 1 THEN p
    ELSE IF Head(p) = "." THEN Tail(p)
    ELSE IF Head(p) = ".." THEN <<"." \o p[2]>> \o Tail(Tail(p))
    ELSE <<Head(p)>> \o ReplaceDotSlash(Tail(p))

----------------------------------------------------------------------------
(* The file system under docsFolder: fs = [files, dirs] *)

FilesUnder(fs, d) == {p \in DOMAIN fs.files : IsPrefix(d, p) /\ p # d}

DirsUnder(fs, d) == {p \in fs.dirs : IsPrefix(d, p) /\ p # d}

\* fs.existsSync on a directory
DirExists(fs, d) == d = <<>> \/ d \in fs.dirs

PathLess(p, q) ==
    \E i \in 1..Len(p) :
        /\ i <= Len(q)
        /\ SubSeq(p, 1, i - 1) = SubSeq(q, 1, i - 1)
        /\ NameRank(p[i]) < NameRank(q[i])

RECURSIVE SortPaths(_)
SortPaths(S) ==
    IF S = {} THEN <<>>
    ELSE LET m == CHOOSE p \in S : \A q \in S \ {p} : PathLess(p, q)
         IN <<m>> \o SortPaths(S \ {m})

\* the markdown files the recursive processDir walks visit below d, in the
\* order of the walk: entries in readdirSync order, directories entered in place
WalkMd(fs, d) ==
    SortPaths({p \in FilesUnder(fs, d) : EndsWithMd(p[Len(p)])})

\* RmRf removing the directory that holds d
RmRf_Tree(fs, d) ==
    LET up == SubSeq(d, 1, Len(d) - 1)
    IN [files |-> [p \in {q \in DOMAIN fs.files : ~IsPrefix(up, q)} |-> fs.files[p]],
        dirs  |-> {q \in fs.dirs : ~IsPrefix(up, q)}]

\* fs.rmSync(d, { recursive: true, force: true })
RmRf(fs, d) ==
    [files |-> [p \in {q \in DOMAIN fs.files : ~IsPrefix(d, q)} |-> fs.files[p]],
     dirs  |-> {q \in fs.dirs : ~IsPrefix(d, q)}]

\* Copied without the exclusion: every entry below src is visited
Copied_All(S, src, excludePath) == S

\* the entries copyDir visits: everything below src that is not the excluded
\* entry or below it
Copied(S, src, excludePath) ==
    {p \in S : ~IsPrefix(excludePath, p)}

\* copyDir(src, dest, excludePath): dest is created when missing, every
\* visited directory is created in dest and every visited file overwrites its
\* copy in dest; what dest held besides stays
copyDir(fs, src, dest, excludePath) ==
    LET cf == Copied(FilesUnder(fs, src), src, excludePath)
        cd == Copied(DirsUnder(fs, src), src, excludePath)
        to(p) == dest \o Relative(src, p)
        newFiles == {to(p) : p \in cf}
    IN [files |-> [q \in DOMAIN fs.files \cup newFiles |->
                     IF q \in newFiles
                     THEN fs.files[CHOOSE p \in cf : to(p) = q]
                     ELSE fs.files[q]],
        dirs  |-> fs.dirs \cup {SubSeq(dest, 1, i) : i \in 1..Len(dest)}
                          \cup {to(p) : p \in cd}]

----------------------------------------------------------------------------
(* Documents: [fm |-> frontmatter, links |-> the inline links of the body].  *)
(* A frontmatter key that is not set holds NoVal (page-id: 0).  A link is    *)
(* [text, url]; a url is [kind, segs, base, space, id] with kind "local"     *)
(* (segs is the target path), "wiki" (base/wiki/spaces/space/pages/id),      *)
(* "http" (any other http or https URL) or "scheme" (a URL of another        *)
(* scheme, such as mailto:; segs is its text cut at the separators).         *)

\* JavaScript truthiness of a frontmatter or configuration value
Truthy(v) == v \notin {NoVal, "", "null", "false"}

LocalUrl(segs) ==
    [kind |-> "local", segs |-> segs, base |-> "", space |-> "", id |-> 0]

\* `${config.confluenceBaseUrl}/wiki/spaces/${spaceKey}/pages/${pageId}`
WikiUrl(base, space, id) ==
    [kind |-> "wiki", segs |-> <<>>, base |-> base, space |-> space, id |-> id]

\* `${v}` in a template literal: a value that is not set reads "undefined"
Interpolated(v) == IF v = NoVal THEN "undefined" ELSE v

\* new Map()
EmptyMap == [k \in {} |-> 0]

\* last-write-wins content of a Map after the set() calls of s, in order
MapOfSets(s) ==
    [k \in {s[i].k : i \in 1..Len(s)} |->
        s[CHOOSE i \in 1..Len(s) :
            s[i].k = k /\ \A j \in (i + 1)..Len(s) : s[j].k # k].v]

MapHas(m, k) == k \in DOMAIN m

----------------------------------------------------------------------------
(* Identifier extraction from the publisher's text output.  An output line  *)
(* is [kind, path, base, space, id]: kind "success" is a line of the form    *)
(* "SUCCESS: <path> Content: ... Page URL: <base>/wiki/spaces/<space>/pages/ *)
(* <id>", any other kind is some other line.                                *)

SuccessLine(path, base, space, id) ==
    [kind |-> "success", path |-> path, base |-> base, space |-> space, id |-> id]

\* whether urlRegex matches the line: the base URL is spelled out in the
\* pattern
MatchesUrlRegex(l) ==
    /\ l.kind = "success"
    /\ l.path # <<>>
    /\ l.base = CorelBase
    /\ l.space # ""
    /\ l.id > 0

\* the matches of the urlRegex.exec loop over the output, in order
ExecMatches(out) == SelectSeq(out, MatchesUrlRegex)

\* updatePageIds: pageIdMap, relativePath -> { pageId, spaceKey }
PublishedIdMap(out) ==
    LET ms == ExecMatches(out) IN
    MapOfSets([i \in 1..Len(ms) |->
        [k |-> ms[i].path, v |-> [pageId |-> ms[i].id, spaceKey |-> ms[i].space]]])

\* updateOriginalFiles: pageIdMap, normalized extension-less path -> pageId
CommandIdMap(out) ==
    LET ms == ExecMatches(out) IN
    MapOfSets([i \in 1..Len(ms) |->
        [k |-> normalizePath(StripMd(ms[i].path)), v |-> ms[i].id]])

\* updateOriginalFiles: spaceKeyMap, pageId -> spaceKey
CommandSpaceMap(out) ==
    LET ms == ExecMatches(out) IN
    MapOfSets([i \in 1..Len(ms) |-> [k |-> ms[i].id, v |-> ms[i].space]])

----------------------------------------------------------------------------
(* buildPageIdMap *)

\* the pageMap.set calls made for one markdown file at relPath
PageMapSets(relPath, pageId) ==
    LET normalizedPath == normalizePath(relPath)
        normalizedBasePath == normalizePath(StripMd(relPath))
        parentDir == PathDirname(normalizedPath)
    IN <<[k |-> normalizedPath, v |-> pageId],
         [k |-> normalizedBasePath, v |-> pageId]>>
       \o (IF parentDir # <<".">> THEN <<[k |-> parentDir, v |-> pageId]>>
           ELSE <<>>)

RECURSIVE PageMapSetsOfWalk(_, _, _)
PageMapSetsOfWalk(fs, dir, walk) ==
    IF walk = <<>> THEN <<>>
    ELSE LET p == Head(walk)
             id == fs.files[p].fm.pageId
         IN (IF id > 0 THEN PageMapSets(Relative(dir, p), id) ELSE <<>>)
            \o PageMapSetsOfWalk(fs, dir, Tail(walk))

buildPageIdMap(fs, dir) == MapOfSets(PageMapSetsOfWalk(fs, dir, WalkMd(fs, dir)))

----------------------------------------------------------------------------
(* updateOriginalFiles(sourceDir, sourceDir) *)

\* ContentType without the branch of the blog post date
ContentType_Kept(fm) == IF Truthy(fm.ctype) THEN fm.ctype ELSE "page"

\* newFrontmatter['connie-content-type']: 'blogpost' for a document with a
\* connie-blog-post-date, else the type the document names, else 'page'
ContentType(fm) ==
    IF Truthy(fm.blogDate) THEN "blogpost"
    ELSE IF Truthy(fm.ctype) THEN fm.ctype ELSE "page"

\* newFrontmatter of one file, entry name 'name', pageId 0 when the
\* command output names none for it
UpdatedFrontmatter(fm, name, pageId, spaceKeyMap) ==
    LET withId ==
            IF pageId > 0
            THEN [fm EXCEPT
                    !.pageId = pageId,
                    !.publish = IF fm.publish # NoVal THEN fm.publish ELSE "true",
                    !.spaceKey =
                        IF MapHas(spaceKeyMap, pageId) /\ Truthy(spaceKeyMap[pageId])
                        THEN spaceKeyMap[pageId]
                        ELSE IF Truthy(fm.spaceKey) THEN fm.spaceKey ELSE "null"]
            ELSE fm
    IN [withId EXCEPT
          !.title = IF Truthy(fm.title) THEN fm.title ELSE StripMdName(name),
          !.dcp = IF Truthy(fm.dcp) THEN fm.dcp ELSE "false",
          !.ctype = ContentType(fm)]

updateOriginalFiles(fs, sourceDir, commandOutput) ==
    LET pageIdMap == CommandIdMap(commandOutput)
        spaceKeyMap == CommandSpaceMap(commandOutput)
        md == {p \in FilesUnder(fs, sourceDir) : EndsWithMd(p[Len(p)])}
        idOf(p) ==
            LET normalizedPath == normalizePath(StripMd(Relative(sourceDir, p)))
            IN IF MapHas(pageIdMap, normalizedPath) THEN pageIdMap[normalizedPath]
               ELSE 0
    IN [fs EXCEPT !.files =
          [p \in DOMAIN fs.files |->
             IF p \in md
             THEN [fs.files[p] EXCEPT
                     !.fm = UpdatedFrontmatter(@, p[Len(p)], idOf(p), spaceKeyMap)]
             ELSE fs.files[p]]]

----------------------------------------------------------------------------
(* fixReferences *)

\* url.includes('/wiki/spaces/')
IncludesWikiSpaces(url) ==
    \/ url.kind = "wiki"
    \/ /\ url.kind = "local"
       /\ \E i \in 2..(Len(url.segs) - 2) :
            url.segs[i] = "wiki" /\ url.segs[i + 1] = "spaces"

\* the names of the model that begin with the letters "http"
HttpNames == {"httpd.md", "httpd"}

\* url.startsWith('http'): true of an http(s) URL, and of a local target
\* whose first segment begins with these letters
StartsWithHttp(url) ==
    \/ url.kind = "http"
    \/ url.kind = "wiki" /\ url.base \in {CorelBase, OtherBase}
    \/ url.kind = "local" /\ url.segs # <<>> /\ Head(url.segs) \in HttpNames

\* pathVariations: the candidate forms of a link target, in the order tried
pathVariations(url, baseDir) ==
    LET joined == PathJoin(baseDir, url)
        undotted == ReplaceDotSlash(url)
        raw == <<url, StripMd(url),
                 joined, StripMd(joined),
                 undotted, StripMd(undotted),
                 joined, StripMd(joined)>>
    IN [i \in 1..Len(raw) |-> normalizePath(raw[i])]

\* the page id of the first variation the map has, 0 when it has none
FirstMatch(pageMap, variations) ==
    IF \E i \in 1..Len(variations) : MapHas(pageMap, variations[i])
    THEN pageMap[variations[CHOOSE i \in 1..Len(variations) :
                    /\ MapHas(pageMap, variations[i])
                    /\ \A j \in 1..(i - 1) : ~MapHas(pageMap, variations[j])]]
    ELSE 0

\* spaceKeyMap.get(pageId) || config.confluenceSpaceKey
LinkSpaceKey(spaceKeyMap, pageId, cfg) ==
    IF MapHas(spaceKeyMap, pageId) /\ Truthy(spaceKeyMap[pageId])
    THEN spaceKeyMap[pageId]
    ELSE cfg.confluenceSpaceKey

\* FixLink answering with the target joined to the directory of the file in
\* place of the page's URL
FixLink_Joined(link, pageMap, baseDir, spaceKeyMap, cfg) ==
    IF IncludesWikiSpaces(link.url) \/ StartsWithHttp(link.url) THEN link
    ELSE IF FirstMatch(pageMap, pathVariations(link.url.segs, baseDir)) > 0
         THEN [link EXCEPT !.url =
                 LocalUrl(normalizePath(PathJoin(baseDir, link.url.segs)))]
         ELSE link

\* the replacement callback of cleanContent.replace(linkRegex, ...)
FixLink(link, pageMap, baseDir, spaceKeyMap, cfg) ==
    IF IncludesWikiSpaces(link.url) \/ StartsWithHttp(link.url) THEN link
    ELSE LET pageId == FirstMatch(pageMap, pathVariations(link.url.segs, baseDir))
         IN IF pageId > 0
            THEN [link EXCEPT !.url =
                    WikiUrl(Interpolated(cfg.confluenceBaseUrl),
                            Interpolated(LinkSpaceKey(spaceKeyMap, pageId, cfg)),
                            pageId)]
            ELSE link

\* fixReferences(content, pageMap, filePath, spaceKeyMap, config): the links of
\* the body are replaced, the frontmatter is attached again as parsed
fixReferences(doc, pageMap, filePath, spaceKeyMap, cfg) ==
    [doc EXCEPT !.links =
        [i \in 1..Len(doc.links) |->
            FixLink(doc.links[i], pageMap, PathDirname(filePath), spaceKeyMap, cfg)]]

----------------------------------------------------------------------------
(* processReferences *)

\* config.folderToPublish ? path.resolve(baseFolder, config.folderToPublish)
\*                        : baseFolder
FolderToPublish(cfg) ==
    IF Truthy(cfg.folderToPublish) /\ cfg.folderToPublish # "."
    THEN <<cfg.folderToPublish>>
    ELSE <<>>

\* targetDir = path.resolve(folderToPublish, FIXED_REFS_DIR)
TargetDir(cfg) == FolderToPublish(cfg) \o <<FIXED_REFS_DIR>>

\* pageMap after the entries of pageIdMap it lacks have been added
MergedPageMap(pageMap, pageIdMap) ==
    [k \in DOMAIN pageMap \cup DOMAIN pageIdMap |->
        IF MapHas(pageMap, k) THEN pageMap[k] ELSE pageIdMap[k]]

\* UpdatedDir with the source tree handed to updateOriginalFiles
UpdatedDir_Source(sourceDir, targetDir) == sourceDir

\* the directory processReferences hands to updateOriginalFiles, as both of
\* its parameters: the temporary folder
UpdatedDir(sourceDir, targetDir) == targetDir

\* the local pageMap of processReferences once pageIdMap has been merged
\* into it
ProcessedPageMap(fs, cfg, commandOutput) ==
    LET sourceDir == FolderToPublish(cfg)
        targetDir == TargetDir(cfg)
        copied == copyDir(fs, sourceDir, targetDir, targetDir)
    IN MergedPageMap(buildPageIdMap(copied, targetDir),
                     CommandIdMap(commandOutput))

\* processMarkdownFiles(dir): every markdown file below dir is rewritten by
\* fixReferences, under its path relative to dir
processMarkdownFiles(fs, dir, map, spaceKeyMap, cfg) ==
    LET md == {p \in FilesUnder(fs, dir) : EndsWithMd(p[Len(p)])}
    IN [fs EXCEPT !.files =
          [p \in DOMAIN fs.files |->
             IF p \in md
             THEN fixReferences(fs.files[p], map, Relative(dir, p),
                                spaceKeyMap, cfg)
             ELSE fs.files[p]]]

processReferences(fs, cfg, commandOutput) ==
    LET sourceDir == FolderToPublish(cfg)
        targetDir == TargetDir(cfg)
        copied == copyDir(fs, sourceDir, targetDir, targetDir)
        updated == updateOriginalFiles(copied, UpdatedDir(sourceDir, targetDir),
                                       commandOutput)
    IN processMarkdownFiles(updated, targetDir,
                            ProcessedPageMap(fs, cfg, commandOutput),
                            CommandSpaceMap(commandOutput), cfg)

\* processReferences stopped by an I/O error of the copy: the target
\* directory has been made, nothing has been copied
processReferencesFailed(fs, cfg) ==
    LET targetDir == TargetDir(cfg) IN
    [fs EXCEPT !.dirs = @ \cup {SubSeq(targetDir, 1, i) : i \in 1..Len(targetDir)}]

----------------------------------------------------------------------------
(* updatePageIds *)

\* s.trim() === '' for the strings of the model
BlankString(s) == s \in {"", "  "}

\* processFile: the frontmatter written to a file the output names
MergedFrontmatter(fm, name, pageInfo) ==
    [fm EXCEPT
        !.pageId = pageInfo.pageId,
        !.publish = "true",
        !.spaceKey = pageInfo.spaceKey,
        !.dcp = "false",
        !.title = IF Truthy(fm.title) /\ ~BlankString(fm.title) THEN fm.title
                  ELSE StripMdName(name)]

\* the files processFile finds page info for: every markdown file below
\* docsFolder whose path relative to docsFolder the output names
FilesWithPageInfo(fs, out) ==
    {p \in FilesUnder(fs, <<>>) :
        EndsWithMd(p[Len(p)]) /\ MapHas(PublishedIdMap(out), p)}

\* hasNewIds as updatePageIds returns it
HasNewIds(fs, out) == FilesWithPageInfo(fs, out) # {}

updatePageIds(fs, out) ==
    LET pageIdMap == PublishedIdMap(out)
        hit == FilesWithPageInfo(fs, out)
    IN [fs EXCEPT !.files =
          [p \in DOMAIN fs.files |->
             IF p \in hit
             THEN [fs.files[p] EXCEPT
                     !.fm = MergedFrontmatter(@, p[Len(p)], pageIdMap[p])]
             ELSE fs.files[p]]]

----------------------------------------------------------------------------
(* The configuration file: [fmt, json].  json is the parsed object, fmt the  *)
(* layout of the text: "indent2" is what JSON.stringify(x, null, 2) writes,  *)
(* "custom" any other layout of the same object.                            *)

\* the string publishToConfluence assigns to config.contentRoot
FixedFolderPath == "<docsFolder>/docs-fixed-references"

\* JSON.stringify(obj, null, 2)
Stringify(obj) == [fmt |-> "indent2", json |-> obj]

\* JSON.parse(text)
Parse(file) == file.json

Range(s) == {s[i] : i \in 1..Len(s)}

\* the ignore patterns publishToConfluence adds to the parsed config
WithIgnorePatterns(cfg) ==
    LET i0 == IF cfg.hasIgnore THEN cfg.ignore ELSE <<>>
        i1 == IF "images" \in Range(i0) THEN i0 ELSE Append(i0, "images")
        i2 == IF "assets/images" \in Range(i1) THEN i1
              ELSE Append(i1, "assets/images")
    IN [cfg EXCEPT !.hasIgnore = TRUE, !.ignore = i2]

\* const originalConfig = { ...config }: taken after the ignore patterns were
\* added to config, before config.contentRoot is assigned
OriginalConfig(cfg) == WithIgnorePatterns(cfg)

\* config.contentRoot = fixedFolder
Repointed(cfg) == [cfg EXCEPT !.contentRoot = FixedFolderPath]

\* RestoredFile with the live config object written in place of the copy
RestoredFile_Live(original, current) == Stringify(current)

\* the text the finally block writes to the configuration file
RestoredFile(original, current) == Stringify(original)

----------------------------------------------------------------------------
(* ensureConfig: the settings of the configuration file and of the shell.   *)
(* Of the required keys the model follows confluenceBaseUrl and             *)
(* confluenceSpaceKey; the file names the others.                           *)

SettingKeys == {"confluenceBaseUrl", "confluenceSpaceKey"}

\* loadConfig: a key the file leaves unset is filled from process.env
loadConfig(file, e) ==
    LET c == Parse(file) IN
    [c EXCEPT
        !.confluenceBaseUrl =
            IF ~Truthy(@) /\ Truthy(e.confluenceBaseUrl)
            THEN e.confluenceBaseUrl ELSE @,
        !.confluenceSpaceKey =
            IF ~Truthy(@) /\ Truthy(e.confluenceSpaceKey)
            THEN e.confluenceSpaceKey ELSE @]

\* REQUIRED_CONFIG_KEYS.filter(key => !existingConfig[key])
MissingKeys(c) == {k \in SettingKeys : ~Truthy(c[k])}

\* { ...existingConfig, ...answers }: inquirer asks for the missing keys only
WithAnswers(c, answers) ==
    [c EXCEPT
        !.confluenceBaseUrl =
            IF "confluenceBaseUrl" \in MissingKeys(c)
            THEN answers.confluenceBaseUrl ELSE @,
        !.confluenceSpaceKey =
            IF "confluenceSpaceKey" \in MissingKeys(c)
            THEN answers.confluenceSpaceKey ELSE @]

\* the configuration file as ensureConfig leaves it: written only when keys
\* were missing and the user agreed to save; what ensureConfig returns is
\* dropped by runCLI
ensureConfig(file, e, answers, confirm) ==
    LET existingConfig == loadConfig(file, e) IN
    IF MissingKeys(existingConfig) # {} /\ confirm
    THEN Stringify(WithAnswers(existingConfig, answers))
    ELSE file

----------------------------------------------------------------------------
(* The external publisher (@markdown-confluence/cli run by cli-executor.js) *)

\* a setting as the publisher reads it: from the configuration file, else
\* from the environment
PublisherSetting(file, key) ==
    IF Truthy(Parse(file)[key]) THEN Parse(file)[key] ELSE env[key]

\* the publisher can reach the wiki only when it has a base URL and a space
CanPublish(file) ==
    \A k \in SettingKeys : Truthy(PublisherSetting(file, k))

\* the directory a content root setting names
ContentRootDir(contentRoot) ==
    IF contentRoot = FixedFolderPath THEN fixedFolder ELSE <<>>

\* the documents the publisher uploads, in order
ToPublish(fs, file) ==
    LET root == ContentRootDir(Parse(file).contentRoot) IN
    SelectSeq(WalkMd(fs, root), LAMBDA p : fs.files[p].fm.publish # "false")

\* how many of the first n documents get a new page
NewBefore(fs, walk, n) ==
    Cardinality({j \in 1..n : fs.files[walk[j]].fm.pageId = 0})

\* stdout of a successful publish: a heading line, then one SUCCESS line per
\* document; a document without page-id gets the wiki's next identifier
PublishOutput(fs, file, firstId) ==
    LET root == ContentRootDir(Parse(file).contentRoot)
        walk == ToPublish(fs, file)
        line(i) ==
            LET fm == fs.files[walk[i]].fm IN
            SuccessLine(Relative(root, walk[i]),
                        PublisherSetting(file, "confluenceBaseUrl"),
                        IF Truthy(fm.spaceKey) THEN fm.spaceKey
                        ELSE PublisherSetting(file, "confluenceSpaceKey"),
                        IF fm.pageId > 0 THEN fm.pageId
                        ELSE firstId + NewBefore(fs, walk, i - 1))
    IN <<[kind |-> "other", path |-> <<>>, base |-> "", space |-> "", id |-> 0]>>
       \o [i \in 1..Len(walk) |-> line(i)]

\* stdout of a publisher killed by a signal while it was uploading: the
\* heading line and, when it could reach the wiki, the line of the first
\* document
KilledOutput(fs, file, firstId) ==
    LET full == PublishOutput(fs, file, firstId)
    IN SubSeq(full, 1, IF CanPublish(file) /\ Len(full) >= 2 THEN 2 ELSE 1)

\* what a publish invocation is given: the content root setting and the
\* documents below the directory it names
Submitted(fs, file) ==
    LET root == ContentRootDir(Parse(file).contentRoot)
        md == {p \in FilesUnder(fs, root) : EndsWithMd(p[Len(p)])}
    IN [contentRoot |-> Parse(file).contentRoot,
        rootExists |-> DirExists(fs, root),
        docs |-> [r \in {Relative(root, p) : p \in md} |-> fs.files[root \o r]]]

----------------------------------------------------------------------------
(* frontmatter-utils over gray-matter.  A text is a sequence of tokens       *)
(* [k, v]: a character of the body (k = "char"; v is "x" for a letter, "sp"  *)
(* for a blank, "nl" for a line break), the delimiter line "---"             *)
(* (k = "delim") or one line "key: value" of the metadata block (k the key). *)
(* A frontmatter mapping is a function from its keys to scalar values.       *)

Char(c) == [k |-> "char", v |-> c]

NL == Char("nl")

Delim == [k |-> "delim", v |-> "---"]

Whitespace(t) == t \in {Char("sp"), Char("nl")}

\* String.prototype.trim
trim(str) ==
    LET ink == {i \in 1..Len(str) : ~Whitespace(str[i])}
    IN IF ink = {} THEN <<>>
       ELSE SubSeq(str, CHOOSE i \in ink : \A j \in ink : i <= j,
                        CHOOSE i \in ink : \A j \in ink : i >= j)

\* gray-matter newline(str): str.slice(-1) !== '\n' ? str + '\n' : str
newline(str) ==
    IF str # <<>> /\ str[Len(str)] = NL THEN str ELSE Append(str, NL)

\* the order in which the keys of a mapping are dumped
KeyOrder == <<"connie-page-id", "connie-title", "connie-publish">>

\* yaml.dump(data): one line per key of the mapping
Dump(data) ==
    LET keys == SelectSeq(KeyOrder, LAMBDA k : k \in DOMAIN data)
    IN [i \in 1..Len(keys) |-> [k |-> keys[i], v |-> data[keys[i]]]]

\* yaml.load(block): the mapping of the lines of the block
Load(block) ==
    LET lines == {i \in 1..Len(block) : block[i].k \notin {"char", "delim"}}
    IN [key \in {block[i].k : i \in lines} |->
          block[CHOOSE i \in lines : block[i].k = key].v]

\* str with newline(line) of each of its lines
RECURSIVE Lines(_)

Lines(block) ==
    IF block = <<>> THEN <<>>
    ELSE <<Head(block), NL>> \o Lines(Tail(block))

\* matter(str): the block between a leading "---" and the next line "---" is
\* the data, what follows that line, less one line break, the content; a text
\* without a leading "---" is all content
matter(str) ==
    IF str # <<>> /\ Head(str) = Delim
    THEN LET ends == {i \in 2..(Len(str) - 1) : str[i] = NL /\ str[i + 1] = Delim}
         IN IF ends = {}
            THEN [data |-> Load(Tail(str)), content |-> <<>>]
            ELSE LET closeIndex == CHOOSE i \in ends : \A j \in ends : i <= j
                     rest == SubSeq(str, closeIndex + 2, Len(str))
                 IN [data |-> Load(SubSeq(str, 2, closeIndex - 1)),
                     content |-> IF rest # <<>> /\ Head(rest) = NL
                                 THEN Tail(rest) ELSE rest]
    ELSE [data |-> EmptyMap, content |-> str]

\* matter.stringify(str, data): str is parsed first; the block is written
\* unless the merged data is the empty mapping; the content ends in a line
\* break
stringify(str, data) ==
    LET file == matter(str)
        merged == [key \in DOMAIN file.data \cup DOMAIN data |->
                     IF key \in DOMAIN data THEN data[key] ELSE file.data[key]]
        buf == IF DOMAIN merged = {} THEN <<>>
               ELSE <<Delim, NL>> \o Lines(Dump(merged)) \o <<Delim, NL>>
    IN buf \o newline(file.content)

\* parseFrontmatter with the content as gray-matter returns it
parseFrontmatter_NoTrim(content) ==
    [frontmatter |-> matter(content).data, content |-> matter(content).content]

parseFrontmatter(content) ==
    [frontmatter |-> matter(content).data,
     content |-> trim(matter(content).content)]

updateFrontmatter(content, newData) ==
    LET file == matter(content)
        mergedData == [key \in DOMAIN file.data \cup DOMAIN newData |->
                         IF key \in DOMAIN newData THEN newData[key]
                         ELSE file.data[key]]
    IN stringify(file.content, mergedData)

\* before anything has been written or parsed
NoSource == [fm |-> EmptyMap, body |-> <<>>]

NoParsed == [frontmatter |-> EmptyMap, content |-> <<>>]

----------------------------------------------------------------------------
(* Initial states: a document folder before the first run *)

FS == [files |-> files, dirs |-> dirs]

NoFm ==
    [pageId |-> 0, spaceKey |-> NoVal, publish |-> NoVal, title |-> NoVal,
     dcp |-> NoVal, ctype |-> NoVal, blogDate |-> NoVal]

\* the frontmatter of a document published earlier under page id 'id'
PublishedFm(id, spaceKey) ==
    [NoFm EXCEPT !.pageId = id, !.spaceKey = spaceKey, !.publish = "true"]

Link(text, url) == [text |-> text, url |-> url]

HttpUrl == [kind |-> "http", segs |-> <<>>, base |-> "", space |-> "", id |-> 0]

DocA(fm) ==
    [fm |-> fm,
     links |-> <<Link("to b", LocalUrl(<<".", "b.md">>)),
                 Link("gone", LocalUrl(<<"missing.md">>))>>]

DocB(fm) == [fm |-> fm, links |-> <<Link("to a", LocalUrl(<<"a.md">>))>>]

DocC(fm) ==
    [fm |-> fm,
     links |-> <<Link("up", LocalUrl(<<"..", "a.md">>)), Link("web", HttpUrl)>>]

DocZ == [fm |-> NoFm, links |-> <<>>]

\* a.md, b.md and sub/c.md, each new or published earlier; 'stale' adds a
\* docs-fixed-references directory an interrupted earlier run left behind
InitFiles(fmA, fmB, fmC, stale) ==
    LET own == (<<"a.md">> :> DocA(fmA)) @@ (<<"b.md">> :> DocB(fmB))
               @@ (<<"sub", "c.md">> :> DocC(fmC))
    IN IF stale THEN own @@ (<<FIXED_REFS_DIR, "z.md">> :> DocZ) ELSE own

InitDirs(stale) == {<<"sub">>} \cup (IF stale THEN {fixedFolder} ELSE {})

\* a.md published earlier, as a blog post of the given date
FmChoicesA ==
    {NoFm, [PublishedFm(100, NoVal) EXCEPT !.title = "Guide",
                                           !.blogDate = "2024-01-15"]}

\* b.md published earlier; in the last choice its page was moved by hand and
\* connie-dont-change-parent-page set
FmChoicesB ==
    {NoFm, PublishedFm(200, NoVal),
     [PublishedFm(200, "OTH") EXCEPT !.dcp = "true"]}

\* sub/c.md published earlier, its content type set by hand
FmChoicesC ==
    {NoFm, [PublishedFm(300, "SP") EXCEPT !.title = "  ", !.ctype = "blogpost"]}

\* the hand-written parts of a configuration file
IgnoreChoices ==
    { [fmt |-> "indent2", hasIgnore |-> FALSE, ignore |-> <<>>, contentRoot |-> NoVal],
      [fmt |-> "indent2", hasIgnore |-> TRUE, ignore |-> <<"drafts">>,
       contentRoot |-> "."],
      [fmt |-> "indent2", hasIgnore |-> TRUE,
       ignore |-> <<"images", "assets/images">>, contentRoot |-> NoVal],
      [fmt |-> "custom", hasIgnore |-> TRUE,
       ignore |-> <<"images", "assets/images">>, contentRoot |-> NoVal] }

InitConfigs ==
    { [fmt |-> c.fmt,
       json |-> [hasIgnore |-> c.hasIgnore, ignore |-> c.ignore,
                 contentRoot |-> c.contentRoot, folderToPublish |-> f,
                 confluenceBaseUrl |-> b, confluenceSpaceKey |-> "SP"]] :
        c \in IgnoreChoices, f \in {NoVal, ".", "sub"}, b \in {CorelBase, OtherBase} }

\* process.env without and with the settings exported
NoEnv == [confluenceBaseUrl |-> NoVal, confluenceSpaceKey |-> NoVal]

ShellEnv == [confluenceBaseUrl |-> CorelBase, confluenceSpaceKey |-> "ENV"]

\* a configuration file that leaves the base URL and the space key to the
\* environment
BareConfig ==
    [fmt |-> "indent2",
     json |-> [hasIgnore |-> FALSE, ignore |-> <<>>, contentRoot |-> NoVal,
               folderToPublish |-> NoVal, confluenceBaseUrl |-> NoVal,
               confluenceSpaceKey |-> NoVal]]

InitSettings ==
    {[file |-> c, env |-> NoEnv] : c \in InitConfigs}
        \cup {[file |-> BareConfig, env |-> e] : e \in {NoEnv, ShellEnv}}

\* what the user types when inquirer asks for the missing keys
PromptAnswers == {[confluenceBaseUrl |-> CorelBase, confluenceSpaceKey |-> "SP"]}

\* command_output.txt: missing (no lines) or left by an earlier tool, naming
\* b.md or a document that has been removed since
CommandOutputs ==
    { <<>>, <<SuccessLine(<<"b.md">>, CorelBase, "OLD", 7)>>,
      <<SuccessLine(<<"missing.md">>, CorelBase, "OLD", 8)>> }

EmptyConfig ==
    [hasIgnore |-> FALSE, ignore |-> <<>>, contentRoot |-> NoVal,
     folderToPublish |-> NoVal, confluenceBaseUrl |-> "", confluenceSpaceKey |-> ""]

Init ==
    /\ \E fmA \in FmChoicesA, fmB \in FmChoicesB, fmC \in FmChoicesC,
          stale \in BOOLEAN :
          /\ files = InitFiles(fmA, fmB, fmC, stale)
          /\ dirs = InitDirs(stale)
    /\ \E s \in InitSettings : cfgFile = s.file /\ env = s.env
    /\ cmdOut \in CommandOutputs
    /\ pc = "idle"
    /\ config = EmptyConfig
    /\ originalConfig = EmptyConfig
    /\ output = <<>>
    /\ hasNewIds = FALSE
    /\ error = "none"
    /\ exitStatus = -1
    /\ nextId = 1
    /\ runs = 0
    /\ cfg0 = cfgFile
    /\ files0 = files
    /\ dirs0 = dirs
    /\ published = <<>>
    /\ steps = <<>>
    /\ builtMap = EmptyMap
    /\ source = NoSource
    /\ written = <<>>
    /\ parsed = NoParsed

----------------------------------------------------------------------------
(* runCLI and publishToConfluence, one action per step *)

SetFS(fs) == files' = fs.files /\ dirs' = fs.dirs

Step(name) == steps' = Append(steps, name)

\* AfterPublishError with the publish tried again
AfterPublishError_Retry == "exec1"

\* AfterPublishError with the error dropped and the run going on to the
\* identifier extraction
AfterPublishError_Merge == "merge"

\* where control goes when execSync throws: the inner catch logs and
\* rethrows, the outer catch logs and rethrows, the finally block runs
AfterPublishError == "pub_finally"

\* Rethrown with the error logged and dropped
Rethrown_Swallowed(e) == "none"

\* what a catch block of publishToConfluence or runCLI leaves of the error it
\* caught: each logs it and throws it again
Rethrown(e) == e

\* runCLI is entered: the user runs the tool; ensureConfig asks for the
\* settings neither the file nor the environment has
StartRun ==
    /\ pc = "idle"
    /\ runs < MaxRuns
    /\ runs' = runs + 1
    /\ \E answers \in PromptAnswers, confirm \in BOOLEAN :
          cfgFile' = ensureConfig(cfgFile, env, answers, confirm)
    /\ cfg0' = cfgFile'
    /\ files0' = files
    /\ dirs0' = dirs
    /\ published' = <<>>
    /\ steps' = <<>>
    /\ error' = "none"
    /\ exitStatus' = -1
    /\ hasNewIds' = FALSE
    /\ output' = <<>>
    /\ config' = EmptyConfig
    /\ originalConfig' = EmptyConfig
    /\ builtMap' = EmptyMap
    /\ pc' = "refs"
    /\ UNCHANGED <<env, files, dirs, cmdOut, nextId>>
    /\ UNCHANGED <<source, written, parsed>>

\* runCLI: await processReferences(docsFolder)
FirstReferences ==
    /\ pc = "refs"
    /\ \/ /\ SetFS(processReferencesFailed(FS, Parse(cfgFile)))
          /\ builtMap' = EmptyMap
          /\ pc' = "cli_finally"
          /\ error' = Rethrown("mirror")
          /\ Step("refs_failed")
       \/ /\ SetFS(processReferences(FS, Parse(cfgFile), cmdOut))
          /\ builtMap' = ProcessedPageMap(FS, Parse(cfgFile), cmdOut)
          /\ pc' = "publish"
          /\ Step("refs")
          /\ UNCHANGED error
    /\ UNCHANGED <<env, cfgFile, cmdOut, config, originalConfig, output, hasNewIds,
                   exitStatus, nextId, runs, cfg0, files0, dirs0, published>>
    /\ UNCHANGED <<source, written, parsed>>

\* publishToConfluence up to the first execSync: the config is read, the
\* ignore patterns are added, the config file is pointed at fixedFolder
BeginPublish ==
    /\ pc = "publish"
    /\ config' = Repointed(WithIgnorePatterns(Parse(cfgFile)))
    /\ originalConfig' = OriginalConfig(Parse(cfgFile))
    /\ cfgFile' = Stringify(config')
    /\ Step("repoint")
    /\ \/ /\ DirExists(FS, fixedFolder)
          /\ pc' = "exec1"
          /\ UNCHANGED error
       \/ /\ ~DirExists(FS, fixedFolder)
          /\ pc' = "pub_finally"
          /\ error' = Rethrown("no_fixed_folder")
    /\ UNCHANGED <<env, builtMap, files, dirs, cmdOut, output, hasNewIds, exitStatus, nextId,
                   runs, cfg0, files0, dirs0, published>>
    /\ UNCHANGED <<source, written, parsed>>

\* how the publisher started by cli-executor.js ends: the exit code and the
\* signal its 'exit' event carries
ChildEnds ==
    { [code |-> "0", signal |-> NoVal], [code |-> "1", signal |-> NoVal],
      [code |-> "null", signal |-> "SIGTERM"] }

\* the exit status of cli-executor.js: process.exit(code), which ends the
\* process with status 0 when code is null
ExecutorStatus(end) == IF end.code = "1" THEN 1 ELSE 0

\* execSync returns the output when the status is 0 and throws otherwise
ExecReturns(end) == ExecutorStatus(end) = 0

\* stdout of the publisher at its end
ChildOutput(fs, file, firstId, end) ==
    CASE end.code = "0" -> PublishOutput(fs, file, firstId)
      [] end.code = "1" -> <<>>
      [] OTHER -> KilledOutput(fs, file, firstId)

\* the number of documents an output reports, one line each after the heading
Uploaded(out) == IF out = <<>> THEN 0 ELSE Len(out) - 1

\* one execSync of cli-executor.js: it returns the output, or throws
Exec(end) ==
    /\ end.code = "0" => CanPublish(cfgFile)
    /\ published' = Append(published,
                           [ok |-> ExecReturns(end), ended |-> end,
                            given |-> Submitted(FS, cfgFile),
                            out |-> ChildOutput(FS, cfgFile, nextId, end)])
    /\ nextId' = nextId + NewBefore(FS, ToPublish(FS, cfgFile),
                                    Uploaded(ChildOutput(FS, cfgFile, nextId, end)))

FirstPublish ==
    /\ pc = "exec1"
    /\ \E end \in ChildEnds :
          /\ Exec(end)
          /\ \/ /\ ExecReturns(end)
                /\ output' = ChildOutput(FS, cfgFile, nextId, end)
                /\ pc' = "merge"
                /\ Step("publish")
                /\ UNCHANGED error
             \/ /\ ~ExecReturns(end)
                /\ pc' = AfterPublishError
                /\ error' = Rethrown("publish")
                /\ Step("publish_failed")
                /\ UNCHANGED output
    /\ UNCHANGED <<env, builtMap, files, dirs, cfgFile, cmdOut, config, originalConfig, hasNewIds,
                   exitStatus, runs, cfg0, files0, dirs0>>
    /\ UNCHANGED <<source, written, parsed>>

\* AfterMerge publishing again for as long as identifiers are reported
AfterMerge_Loop(has) == IF has THEN "exec1" ELSE "pub_finally"

\* if (hasNewIds) { phase 2 }: where control goes after updatePageIds
AfterMerge(has) == IF has THEN "phase2" ELSE "pub_finally"

\* const hasNewIds = updatePageIds(docsFolder, output)
MergeIds ==
    /\ pc = "merge"
    /\ SetFS(updatePageIds(FS, output))
    /\ hasNewIds' = HasNewIds(FS, output)
    /\ pc' = AfterMerge(hasNewIds')
    /\ Step("merge")
    /\ UNCHANGED <<env, builtMap, cfgFile, cmdOut, config, originalConfig, output, error,
                   exitStatus, nextId, runs, cfg0, files0, dirs0, published>>
    /\ UNCHANGED <<source, written, parsed>>

\* phase 2 up to the second execSync: fixedFolder is removed and
\* processReferences runs again; the removal may throw, which no try block
\* guards here, and so may the copy
SecondReferences ==
    /\ pc = "phase2"
    /\ \/ /\ DirExists(FS, fixedFolder)
          /\ UNCHANGED <<files, dirs, builtMap>>
          /\ pc' = AfterPublishError
          /\ error' = Rethrown("mirror")
          /\ Step("refs_failed")
       \/ /\ SetFS(processReferencesFailed(RmRf(FS, fixedFolder), Parse(cfgFile)))
          /\ builtMap' = EmptyMap
          /\ pc' = AfterPublishError
          /\ error' = Rethrown("mirror")
          /\ Step("refs_failed")
       \/ /\ SetFS(processReferences(RmRf(FS, fixedFolder), Parse(cfgFile), cmdOut))
          /\ builtMap' = ProcessedPageMap(RmRf(FS, fixedFolder), Parse(cfgFile),
                                          cmdOut)
          /\ pc' = "exec2"
          /\ Step("refs")
          /\ UNCHANGED error
    /\ UNCHANGED <<env, cfgFile, cmdOut, config, originalConfig, output, hasNewIds,
                   exitStatus, nextId, runs, cfg0, files0, dirs0, published>>
    /\ UNCHANGED <<source, written, parsed>>

SecondPublish ==
    /\ pc = "exec2"
    /\ \E end \in ChildEnds :
          /\ Exec(end)
          /\ \/ /\ ExecReturns(end)
                /\ pc' = "pub_finally"
                /\ Step("publish")
                /\ UNCHANGED error
             \/ /\ ~ExecReturns(end)
                /\ pc' = AfterPublishError
                /\ error' = Rethrown("publish")
                /\ Step("publish_failed")
    /\ UNCHANGED <<env, builtMap, files, dirs, cfgFile, cmdOut, config, originalConfig, output,
                   hasNewIds, exitStatus, runs, cfg0, files0, dirs0>>
    /\ UNCHANGED <<source, written, parsed>>

\* if (fs.existsSync(fixedFolder)) try { fs.rmSync(...) } catch { warn }:
\* the removal succeeds, or fails and is only logged
Cleanup(who) ==
    \/ /\ SetFS(RmRf(FS, fixedFolder))
       /\ Step(who)
    \/ /\ DirExists(FS, fixedFolder)
       /\ UNCHANGED <<files, dirs>>
       /\ Step(who \o "_failed")

\* the finally block of publishToConfluence
PublishFinally ==
    /\ pc = "pub_finally"
    /\ cfgFile' = RestoredFile(originalConfig, config)
    /\ Cleanup("pub_cleanup")
    /\ pc' = "cli_finally"
    /\ UNCHANGED <<env, builtMap, cmdOut, config, originalConfig, output, hasNewIds, error,
                   exitStatus, nextId, runs, cfg0, files0, dirs0, published>>
    /\ UNCHANGED <<source, written, parsed>>

\* the catch and finally blocks of runCLI, then runCLI().catch: the process
\* ends with status 1 when an error reached it
CliFinally ==
    /\ pc = "cli_finally"
    /\ Cleanup("cli_cleanup")
    /\ exitStatus' = IF error = "none" THEN 0 ELSE 1
    /\ pc' = "idle"
    /\ UNCHANGED <<env, builtMap, cfgFile, cmdOut, config, originalConfig, output, hasNewIds,
                   error, nextId, runs, cfg0, files0, dirs0, published>>
    /\ UNCHANGED <<source, written, parsed>>

Next ==
    \/ StartRun
    \/ FirstReferences
    \/ BeginPublish
    \/ FirstPublish
    \/ MergeIds
    \/ SecondReferences
    \/ SecondPublish
    \/ PublishFinally
    \/ CliFinally

Spec == Init /\ [][Next]_vars

\* the steps of a run that has been started: each is a synchronous call that
\* returns, so a run that can take a step takes it
RunStep ==
    \/ FirstReferences
    \/ BeginPublish
    \/ FirstPublish
    \/ MergeIds
    \/ SecondReferences
    \/ SecondPublish
    \/ PublishFinally
    \/ CliFinally

\* the folders whose configuration file is complete and written by hand in
\* the layout the tool writes, without a command_output.txt
FairInit ==
    /\ Init
    /\ cmdOut = <<>>
    /\ env = NoEnv
    /\ cfgFile.fmt = "indent2"
    /\ ~Parse(cfgFile).hasIgnore
    /\ Parse(cfgFile).folderToPublish # "."
    /\ Parse(cfgFile).confluenceBaseUrl = CorelBase

FairSpec == FairInit /\ [][Next]_vars /\ WF_vars(RunStep)

----------------------------------------------------------------------------
(* buildPageIdMap and the link rewriting applied to document trees: a       *)
(* directory dir holding any of the documents of TreePaths, each with or    *)
(* without a page id and each with one link.  TreeSpec builds the map of    *)
(* dir, rewrites every document of dir with it and then rewrites the        *)
(* rewritten documents once more.                                           *)

TreePaths ==
    {<<"a.md">>, <<"b.md">>, <<"httpd.md">>, <<"a", "c.md">>,
     <<"sub", "a.md">>, <<"sub", "b.md">>}

\* the page a document of the tree was published as
TreeId(p) ==
    CASE p = <<"a.md">> -> 100
      [] p = <<"b.md">> -> 200
      [] p = <<"a", "c.md">> -> 300
      [] p = <<"httpd.md">> -> 400
      [] p = <<"sub", "a.md">> -> 500
      [] p = <<"sub", "b.md">> -> 600

\* a URL of another scheme: mailto:team@example.com
MailtoUrl ==
    [kind |-> "scheme", segs |-> <<"mailto:team@example.com">>, base |-> "",
     space |-> "", id |-> 0]

\* the link targets written in the documents of a tree
TreeTargets ==
    {LocalUrl(<<"b.md">>), LocalUrl(<<".", "b.md">>), LocalUrl(<<"..", "b.md">>),
     LocalUrl(<<"a">>), LocalUrl(<<"sub", "b">>), LocalUrl(<<"httpd.md">>),
     LocalUrl(<<".", "httpd.md">>), LocalUrl(<<"missing.md">>),
     HttpUrl, MailtoUrl, WikiUrl(OtherBase, "SP", 9)}

\* the tree holding the documents of S, those of I published earlier, each
\* with one link to target t
TreeFiles(S, I, t) ==
    [p \in S |->
        [fm |-> IF p \in I THEN PublishedFm(TreeId(p), NoVal) ELSE NoFm,
         links |-> <<Link("see", t)>>]]

TreeDirs(S) == {SubSeq(p, 1, Len(p) - 1) : p \in {q \in S : Len(q) > 1}}

TreeConfig ==
    [BareConfig EXCEPT !.json.confluenceBaseUrl = OtherBase,
                       !.json.confluenceSpaceKey = "SP"]

\* the configuration with and without a base URL
TreeConfigs ==
    {TreeConfig, [TreeConfig EXCEPT !.json.confluenceBaseUrl = NoVal]}

TreeInit ==
    /\ \E S \in SUBSET TreePaths \ {{}} : \E I \in SUBSET S : \E t \in TreeTargets :
          /\ files = TreeFiles(S, I, t)
          /\ dirs = TreeDirs(S)
    /\ cfgFile \in TreeConfigs
    /\ env = NoEnv
    /\ cmdOut = <<>>
    /\ pc = "tree"
    /\ config = EmptyConfig
    /\ originalConfig = EmptyConfig
    /\ output = <<>>
    /\ hasNewIds = FALSE
    /\ error = "none"
    /\ exitStatus = -1
    /\ nextId = 1
    /\ runs = 0
    /\ cfg0 = cfgFile
    /\ files0 = files
    /\ dirs0 = dirs
    /\ published = <<>>
    /\ steps = <<>>
    /\ builtMap = EmptyMap
    /\ source = NoSource
    /\ written = <<>>
    /\ parsed = NoParsed

\* const pageMap = buildPageIdMap(dir)
BuildMap ==
    /\ pc = "tree"
    /\ builtMap' = buildPageIdMap(FS, <<>>)
    /\ pc' = "mapped"
    /\ UNCHANGED <<files, dirs, cfgFile, cmdOut, config, originalConfig, output,
                   hasNewIds, error, exitStatus, nextId, runs, cfg0, files0,
                   dirs0, published, steps, env>>
    /\ UNCHANGED <<source, written, parsed>>

\* processMarkdownFiles(dir) with that map and no recorded space keys
FixTree ==
    /\ pc = "mapped"
    /\ SetFS(processMarkdownFiles(FS, <<>>, builtMap, EmptyMap, Parse(cfgFile)))
    /\ pc' = "fixed"
    /\ UNCHANGED <<cfgFile, cmdOut, config, originalConfig, output, hasNewIds,
                   error, exitStatus, nextId, runs, cfg0, files0, dirs0,
                   published, steps, builtMap, env>>
    /\ UNCHANGED <<source, written, parsed>>

\* processMarkdownFiles(dir) applied to the documents it has rewritten
FixAgain ==
    /\ pc = "fixed"
    /\ SetFS(processMarkdownFiles(FS, <<>>, builtMap, EmptyMap, Parse(cfgFile)))
    /\ pc' = "refixed"
    /\ UNCHANGED <<cfgFile, cmdOut, config, originalConfig, output, hasNewIds,
                   error, exitStatus, nextId, runs, cfg0, files0, dirs0,
                   published, steps, builtMap, env>>
    /\ UNCHANGED <<source, written, parsed>>

TreeNext == BuildMap \/ FixTree \/ FixAgain

TreeSpec == TreeInit /\ [][TreeNext]_vars

----------------------------------------------------------------------------
(* updateFrontmatter and parseFrontmatter applied to frontmatter mappings   *)
(* and bodies: MatterSpec writes a body under a frontmatter and parses the  *)
(* text it has written.                                                     *)

\* the bodies of at most n characters
Bodies(n) ==
    UNION {[1..m -> {Char("x"), Char("sp"), Char("nl")}] : m \in 0..n}

MatterFms ==
    { EmptyMap,
      "connie-page-id" :> "100",
      ("connie-page-id" :> "100") @@ ("connie-title" :> "Guide"),
      ("connie-title" :> "  ") @@ ("connie-publish" :> "true") }

MatterInit ==
    /\ \E fm \in MatterFms, body \in Bodies(MaxBodyLen) :
          source = [fm |-> fm, body |-> body]
    /\ written = <<>>
    /\ parsed = NoParsed
    /\ pc = "matter"
    /\ files = <<>>
    /\ dirs = {}
    /\ cfgFile = BareConfig
    /\ env = NoEnv
    /\ cmdOut = <<>>
    /\ config = EmptyConfig
    /\ originalConfig = EmptyConfig
    /\ output = <<>>
    /\ hasNewIds = FALSE
    /\ error = "none"
    /\ exitStatus = -1
    /\ nextId = 1
    /\ runs = 0
    /\ cfg0 = cfgFile
    /\ files0 = files
    /\ dirs0 = dirs
    /\ published = <<>>
    /\ steps = <<>>
    /\ builtMap = EmptyMap

\* updateFrontmatter(body, frontmatter)
Serialize ==
    /\ pc = "matter"
    /\ written' = updateFrontmatter(source.body, source.fm)
    /\ pc' = "serialized"
    /\ UNCHANGED <<files, dirs, cfgFile, cmdOut, config, originalConfig, output,
                   hasNewIds, error, exitStatus, nextId, runs, cfg0, files0,
                   dirs0, published, steps, builtMap, env, source, parsed>>

\* parseFrontmatter(written)
ParseText ==
    /\ pc = "serialized"
    /\ parsed' = parseFrontmatter(written)
    /\ pc' = "parsed"
    /\ UNCHANGED <<files, dirs, cfgFile, cmdOut, config, originalConfig, output,
                   hasNewIds, error, exitStatus, nextId, runs, cfg0, files0,
                   dirs0, published, steps, builtMap, env, source, written>>

MatterNext == Serialize \/ ParseText

MatterSpec == MatterInit /\ [][MatterNext]_vars

----------------------------------------------------------------------------
(* Properties *)

\* a run has ended: runCLI has returned or thrown and the process has exited
RunEnded == pc = "idle" /\ runs > 0

PublishSteps == {i \in 1..Len(steps) : steps[i] \in {"publish", "publish_failed"}}

FailureSteps ==
    {i \in 1..Len(steps) : steps[i] \in {"refs_failed", "publish_failed"}}

FirstPublishFailed == Len(published) >= 1 /\ ~published[1].ok

\* the last removal of docs-fixed-references the run attempted was refused
RemovalRefused ==
    steps # <<>> /\ steps[Len(steps)] = "cli_cleanup_failed"

\* a directory named docs-fixed-references that was not there when the run
\* started
MirrorsLeft == {d \in dirs \ dirs0 : d[Len(d)] = FIXED_REFS_DIR}

\* C1: when the first publish invocation fails, the run ends with the
\* configuration file byte-identical to what it was before the run and with no
\* mirror directory, whatever the configuration was before the run.  (A
\* removal the operating system refuses is only logged, by design, and is left
\* out of the statement.)
C1_FailedFirstPublishLeavesNoTrace ==
    (RunEnded /\ FirstPublishFailed /\ ~RemovalRefused)
        => /\ cfgFile = cfg0
           /\ ~DirExists(FS, TargetDir(Parse(cfg0)))

\* C2: a run that pointed the configuration file at the mirror has, once
\* publishToConfluence is left on any path, put the content root setting back
\* to the value it had before the run.
C2_ContentRootRestored ==
    (pc \in {"cli_finally", "idle"} /\ \E i \in 1..Len(steps) : steps[i] = "repoint")
        => /\ Parse(cfgFile).contentRoot = Parse(cfg0).contentRoot
           /\ Parse(cfgFile).contentRoot # FixedFolderPath

\* C2 witness: a run with a content root set before it has ended after its
\* second publish invocation failed
C2_Witness ==
    /\ RunEnded
    /\ Parse(cfg0).contentRoot = "."
    /\ Len(published) = 2
    /\ ~published[2].ok

\* C3: when a run ends, no mirror directory it made is left, wherever the
\* configured folderToPublish puts the mirror.  (Refused removals are left
\* out, as in C1.)
C3_NoMirrorLeft == (RunEnded /\ ~RemovalRefused) => MirrorsLeft = {}

\* C4: a run in which a step failed ends with exit status 1, never 0; the
\* error reaches the caller only after the cleanup of every function it
\* unwinds through has run, and it stays raised until then.
C4_FatalErrorEndsFailed ==
    /\ (FailureSteps # {} /\ pc # "idle") => error # "none"
    /\ (RunEnded /\ (FailureSteps # {} \/ error # "none")) => exitStatus = 1
    /\ (RunEnded /\ exitStatus = 0) => (FailureSteps = {} /\ error = "none")
    /\ RunEnded =>
         \A i \in FailureSteps :
            /\ \E j \in (i + 1)..Len(steps) :
                  steps[j] \in {"cli_cleanup", "cli_cleanup_failed"}
            /\ (\E k \in 1..i : steps[k] = "repoint") =>
                  \E j \in (i + 1)..Len(steps) :
                     steps[j] \in {"pub_cleanup", "pub_cleanup_failed"}

\* C4 witness: a run has ended with status 1 after its second publish
\* invocation failed
C4_Witness ==
    /\ RunEnded
    /\ exitStatus = 1
    /\ Len(published) = 2
    /\ ~published[2].ok
    /\ error = "publish"

\* the run is past the identifier merge
Merged == \E i \in 1..Len(steps) : steps[i] = "merge"

\* the path below docsFolder of the original of a submitted document
OriginalOf(rel) == FolderToPublish(Parse(cfg0)) \o rel

SuccessLines(out) == {i \in 1..Len(out) : out[i].kind = "success"}

\* every document the first publish reports carried the reported page-id in
\* its frontmatter before the run
NoNewIdentifier ==
    \A i \in SuccessLines(published[1].out) :
        LET l == published[1].out[i] IN
        /\ OriginalOf(l.path) \in DOMAIN files0
        /\ files0[OriginalOf(l.path)].fm.pageId = l.id

\* C5: when the first publish assigns no new identifier, hasNewIds is false
\* after the merge, the mirror is not rebuilt and there is no second publish
\* invocation.
C5_NoNewIdsSkipsSecondPass ==
    (Len(published) >= 1 /\ published[1].ok /\ Merged /\ NoNewIdentifier)
        => /\ ~hasNewIds
           /\ pc \notin {"phase2", "exec2"}
           /\ Len(published) = 1

\* C6: a run invokes the publisher at most twice; a second invocation comes
\* only after a successful first one and the identifier merge; after a failed
\* invocation there is none.
C6_AtMostTwoPublishesNoRetry ==
    /\ Cardinality(PublishSteps) <= 2
    /\ Len(published) = Cardinality(PublishSteps)
    /\ \A i \in PublishSteps :
          steps[i] = "publish_failed" => \A j \in PublishSteps : j <= i
    /\ \A i, j \in PublishSteps :
          i < j => /\ steps[i] = "publish"
                   /\ \E k \in (i + 1)..(j - 1) : steps[k] = "merge"
    /\ \A i \in FailureSteps : \A j \in PublishSteps : j <= i

\* C6 witness: a run has ended after two publish invocations
C6_Witness == RunEnded /\ Cardinality(PublishSteps) = 2 /\ published[1].ok

\* the identifier the first publish reports for the document at rel, 0 when
\* it reports none
ReportedId(rel) ==
    LET out == published[1].out IN
    IF \E i \in SuccessLines(out) : out[i].path = rel
    THEN out[CHOOSE i \in SuccessLines(out) : out[i].path = rel].id
    ELSE 0

\* the run published the whole folder, its configuration file names the base
\* URL and the space key, it found no command_output.txt, every step of it
\* succeeded and every publisher it started exited with code 0
CleanRunEnded ==
    /\ RunEnded
    /\ exitStatus = 0
    /\ FolderToPublish(Parse(cfg0)) = <<>>
    /\ MissingKeys(Parse(cfg0)) = {}
    /\ cmdOut = <<>>
    /\ \A n \in 1..Len(published) : published[n].ended.code = "0"

LastGiven == published[Len(published)].given.docs

\* C7 (scenario A): a.md links to ./b.md and neither has a page-id; after a
\* run in which the publisher succeeds and reports idA and idB under the
\* configured base URL, both originals carry their page-id and the link of
\* a.md, as given to the last publish invocation, is
\* {baseUrl}/wiki/spaces/{SPACE}/pages/{idB}.
C7_ScenarioA ==
    (/\ CleanRunEnded
     /\ files0[<<"a.md">>].fm.pageId = 0
     /\ files0[<<"b.md">>].fm.pageId = 0)
        => /\ ReportedId(<<"a.md">>) > 0
           /\ ReportedId(<<"b.md">>) > 0
           /\ files[<<"a.md">>].fm.pageId = ReportedId(<<"a.md">>)
           /\ files[<<"b.md">>].fm.pageId = ReportedId(<<"b.md">>)
           /\ LastGiven[<<"a.md">>].links[1].url =
                 WikiUrl(Parse(cfg0).confluenceBaseUrl,
                         Parse(cfg0).confluenceSpaceKey, ReportedId(<<"b.md">>))

\* C8 (scenario B): a.md has page-id 100, b.md is new and links to a.md; the
\* first publish gives b.md a fresh id, there is a second pass, the link of
\* b.md given to the second publish is the wiki URL of page 100, a.md keeps
\* page-id 100 and there are exactly two publish invocations.
C8_ScenarioB ==
    (/\ CleanRunEnded
     /\ files0[<<"a.md">>].fm.pageId = 100
     /\ files0[<<"b.md">>].fm.pageId = 0)
        => /\ Len(published) = 2
           /\ ReportedId(<<"b.md">>) \notin {0, 100}
           /\ files[<<"b.md">>].fm.pageId = ReportedId(<<"b.md">>)
           /\ files[<<"a.md">>].fm.pageId = 100
           /\ published[2].given.docs[<<"b.md">>].links[1].url =
                 WikiUrl(Parse(cfg0).confluenceBaseUrl,
                         Parse(cfg0).confluenceSpaceKey, 100)

\* C9: from every publish output, the extraction yields exactly the pairs
\* (SPACE, ID) of its SUCCESS lines, each under the line's relative path,
\* whatever base URL the lines carry.
C9_ExtractionForAnyBase ==
    \A n \in 1..Len(published) :
        LET out == published[n].out
            ids == PublishedIdMap(out)
        IN /\ \A i \in SuccessLines(out) :
                 /\ MapHas(ids, out[i].path)
                 /\ ids[out[i].path] =
                       [pageId |-> out[i].id, spaceKey |-> out[i].space]
           /\ \A k \in DOMAIN ids :
                 \E i \in SuccessLines(out) : out[i].path = k

\* the documents given to a publish invocation that carry page id 'id'
Carrying(given, id) == {r \in DOMAIN given : given[r].fm.pageId = id}

\* C10: a local link that was rewritten carries the space key recorded for
\* the document it points to whenever that document records one, and the
\* configured default space key only when it records none.  (Stated of runs
\* whose configuration file names the base URL and the space key.)
C10_LinkUsesRecordedSpaceKey ==
    \A n \in {m \in 1..Len(published) : MissingKeys(Parse(cfg0)) = {}} :
        LET given == published[n].given.docs IN
        \A r \in DOMAIN given :
            \A i \in 1..Len(given[r].links) :
                LET url == given[r].links[i].url IN
                (/\ url.kind = "wiki"
                 /\ OriginalOf(r) \in DOMAIN files
                 /\ files[OriginalOf(r)].links[i].url.kind = "local")
                    => /\ url.base = Parse(cfg0).confluenceBaseUrl
                       /\ \A t \in Carrying(given, url.id) :
                             url.space =
                                IF Truthy(given[t].fm.spaceKey)
                                THEN given[t].fm.spaceKey
                                ELSE Parse(cfg0).confluenceSpaceKey

----------------------------------------------------------------------------
(* Properties of the identifier map and of the link rewriting (TreeSpec) *)

\* the identified documents of the tree the map was built from
Identified == {p \in DOMAIN files0 : files0[p].fm.pageId > 0}

\* the key forms of the document at p: its path, its path without the
\* extension, and its directory when that is not the root of the tree
KeyForms(p) ==
    {p, StripMd(p)} \cup (IF Len(p) > 1 THEN {SubSeq(p, 1, Len(p) - 1)} ELSE {})

\* the candidate forms of link i of the document at p
CandidatesOf(p, i) ==
    pathVariations(files0[p].links[i].url.segs, PathDirname(p))

\* the candidates of link i of p the map has
Present(p, i) ==
    {j \in 1..Len(CandidatesOf(p, i)) : MapHas(builtMap, CandidatesOf(p, i)[j])}

\* C11: for every local link and the map built from the tree, all candidate
\* forms of the target the map has carry the same identifier, so the order in
\* which they are tried does not change the rewritten link; a link to b.md
\* in sub/a.md gets the same page whether "b.md" is looked up as written or
\* as sub/b.md.
C11_CandidatesAgree ==
    pc # "tree" =>
        \A p \in DOMAIN files0 : \A i \in 1..Len(files0[p].links) :
            files0[p].links[i].url.kind = "local" =>
                \A j, k \in Present(p, i) :
                    builtMap[CandidatesOf(p, i)[j]] = builtMap[CandidatesOf(p, i)[k]]

\* C12: once the map is built, every key form of every identified document
\* maps to that document's identifier, also with several identified documents
\* in one directory and with a file x.md next to a directory x.
C12_AllKeyFormsResolve ==
    pc # "tree" =>
        \A p \in Identified : \A k \in KeyForms(p) :
            MapHas(builtMap, k) /\ builtMap[k] = files0[p].fm.pageId

\* the identified documents that register key k, in the order visited
Registering(k) ==
    SelectSeq(WalkMd([files |-> files0, dirs |-> dirs0], <<>>),
              LAMBDA p : p \in Identified /\ k \in KeyForms(p))

\* C13: a key of the map keeps the identifier of the first document visited
\* that registers it; documents visited later do not overwrite it.
C13_FirstWriteWins ==
    pc # "tree" =>
        \A k \in DOMAIN builtMap :
            builtMap[k] = files0[Head(Registering(k))].fm.pageId

\* an absolute wiki URL or a URL qualified by a scheme
Absolute(url) == url.kind \in {"wiki", "http", "scheme"}

\* C14: the rewriter leaves a link to an absolute wiki URL or to any URL with a
\* scheme as it is, whatever the map holds; a link to anything else is looked
\* up, so it is rewritten whenever the map has one of its candidate forms.
C14_OnlyAbsoluteUrlsSkipped ==
    pc = "fixed" =>
        \A p \in DOMAIN files0 : \A i \in 1..Len(files0[p].links) :
            LET before == files0[p].links[i].url
                after == files[p].links[i].url
            IN /\ Absolute(before) => after = before
               /\ (~Absolute(before) /\ Present(p, i) # {}) => after.kind = "wiki"

----------------------------------------------------------------------------
(* Properties of a run, continued (Spec) *)

\* a path inside a mirror directory
InMirror(p) == FIXED_REFS_DIR \in Range(p)

\* the original documents, as they were when the run started
Originals0 == {p \in DOMAIN files0 : ~InMirror(p)}

\* the original documents the run publishes
Sources0 == {p \in Originals0 : IsPrefix(FolderToPublish(Parse(cfg0)), p)}

\* the candidate forms of link i of the document given to the publisher
\* under rel
GivenCandidates(rel, i) ==
    pathVariations(files0[OriginalOf(rel)].links[i].url.segs, PathDirname(rel))

\* link i of the original of rel is a local link whose target matches no
\* document of the published tree under any candidate form
Unmatched(rel, i) ==
    /\ files0[OriginalOf(rel)].links[i].url.kind = "local"
    /\ \A q \in Sources0 :
          KeyForms(Relative(FolderToPublish(Parse(cfg0)), q))
              \cap Range(GivenCandidates(rel, i)) = {}

\* the links with an original, of the documents given to publish invocation n
GivenLinks(n) ==
    UNION {{<<r, i>> : i \in 1..Len(files0[OriginalOf(r)].links)} :
            r \in {q \in DOMAIN published[n].given.docs :
                      OriginalOf(q) \in Originals0}}

\* C15 (scenario C): a link whose target matches no document of the tree
\* under any candidate form is the same local link in what every publish
\* invocation is given and in the original after the run, the identifier map
\* has no entry under any of its candidate forms, and no error comes of it:
\* an error of the run is an I/O or publisher failure or a missing mirror.
C15_ScenarioC ==
    /\ \A n \in 1..Len(published) : \A x \in GivenLinks(n) :
          Unmatched(x[1], x[2]) =>
             /\ published[n].given.docs[x[1]].links[x[2]] =
                   files0[OriginalOf(x[1])].links[x[2]]
             /\ files[OriginalOf(x[1])].links[x[2]] =
                   files0[OriginalOf(x[1])].links[x[2]]
             /\ \A j \in 1..Len(GivenCandidates(x[1], x[2])) :
                   ~MapHas(builtMap, GivenCandidates(x[1], x[2])[j])
    /\ error # "none" => (FailureSteps # {} \/ error = "no_fixed_folder")

\* the line of the first publish output that reports relative path rel
ReportedLine(rel) ==
    LET out == published[1].out IN
    out[CHOOSE i \in SuccessLines(out) : out[i].path = rel]

\* C16: after the identifier merge every original document whose relative
\* path the first publish reports has the reported page-id and space-key,
\* publish true, dont-change-parent false and its previous non-blank title or
\* else its file name without the extension, its other frontmatter keys and
\* its body as before; an original document that is not reported is as before.
C16_MergeWritesReportedDocuments ==
    Merged =>
        \A p \in Originals0 :
            IF ReportedId(p) > 0
            THEN /\ files[p].fm =
                      [files0[p].fm EXCEPT
                          !.pageId = ReportedLine(p).id,
                          !.publish = "true",
                          !.spaceKey = ReportedLine(p).space,
                          !.dcp = "false",
                          !.title = IF @ \in {NoVal, "", "  "}
                                    THEN StripMdName(p[Len(p)]) ELSE @]
                 /\ files[p].links = files0[p].links
            ELSE files[p] = files0[p]

\* the original documents whose frontmatter sets
\* connie-dont-change-parent-page to true
ParentKept == {p \in Originals0 : files0[p].fm.dcp = "true"}

\* C17: a document that sets connie-dont-change-parent-page to true still
\* sets it after any run, and goes to every publish invocation of the run with
\* it set.
C17_DontChangeParentKept ==
    \A p \in ParentKept :
        /\ files[p].fm.dcp = "true"
        /\ \A n \in 1..Len(published) :
              \A r \in DOMAIN published[n].given.docs :
                  OriginalOf(r) = p => published[n].given.docs[r].fm.dcp = "true"

\* the files and directories outside the mirror directories
OriginalTree == [p \in {q \in DOMAIN files : ~InMirror(q)} |-> files[p]]

OriginalDirs == {d \in dirs : ~InMirror(d)}

\* C18: only the identifier merge writes the original tree: no other step
\* (mirror building, either pass of reference fixing, the publisher, the
\* cleanups) creates, changes or removes a file or directory outside the
\* mirror directories, and the links of the original documents stay as
\* written.
C18_OnlyMergeWritesOriginals ==
    [][/\ (OriginalTree' # OriginalTree \/ OriginalDirs' # OriginalDirs)
            => pc = "merge"
       /\ \A p \in Originals0' :
             p \in DOMAIN files' /\ files'[p].links = files0'[p].links]_vars

\* C18 witness: the second pass has rebuilt the mirror after the merge wrote
\* b.md's new page id to the original: the mirrored a.md links to the wiki,
\* the original a.md still links to ./b.md
C18_Witness ==
    /\ pc = "exec2"
    /\ files0[<<"b.md">>].fm.pageId = 0
    /\ files[<<"b.md">>].fm.pageId > 0
    /\ <<FIXED_REFS_DIR, "a.md">> \in DOMAIN files
    /\ files[<<FIXED_REFS_DIR, "a.md">>].links[1].url.kind = "wiki"
    /\ files[<<"a.md">>].links[1].url = LocalUrl(<<".", "b.md">>)

\* how often x occurs in the list s
Count(s, x) == Cardinality({i \in 1..Len(s) : s[i] = x})

\* the entries the ignore list has to hold
RequiredIgnores == {FIXED_REFS_DIR, "images", "assets/images"}

\* C19: whenever the publisher is about to be invoked the ignore list of the
\* configuration file holds the mirror directory's name and the image
\* directories, and after any number of runs it holds each of them exactly
\* once.
C19_IgnoreListComplete ==
    (pc \in {"exec1", "exec2"} \/ (RunEnded /\ Len(published) > 0)) =>
        /\ Parse(cfgFile).hasIgnore
        /\ \A x \in RequiredIgnores : Count(Parse(cfgFile).ignore, x) = 1

\* the settings reach the run through the environment only
SettingsFromEnv == MissingKeys(Parse(cfg0)) = SettingKeys /\ env = ShellEnv

\* C20: when the configuration file leaves the base URL and the space key to
\* the environment, every local link the run rewrites carries the base URL of
\* the environment, and its space key unless the target records its own.
C20_EnvSettingsUsedInLinks ==
    SettingsFromEnv =>
        \A n \in 1..Len(published) : \A x \in GivenLinks(n) :
            LET url == published[n].given.docs[x[1]].links[x[2]].url IN
            (/\ url.kind = "wiki"
             /\ files0[OriginalOf(x[1])].links[x[2]].url.kind = "local")
                => /\ url.base = env.confluenceBaseUrl
                   /\ \/ url.space = env.confluenceSpaceKey
                      \/ \E t \in Carrying(published[n].given.docs, url.id) :
                            url.space = published[n].given.docs[t].fm.spaceKey

----------------------------------------------------------------------------
(* Properties of the mirror and of the publish invocations (Spec) *)

\* processReferences has just returned
MirrorBuilt == Len(steps) > 0 /\ steps[Len(steps)] = "refs"

\* C21: after any mirror build, of the first or of the second pass and with
\* or without a mirror directory left from an earlier build, nothing inside
\* the mirror is a copy of the mirror directory itself, and every other file
\* and directory of the source tree has its copy in the mirror.
C21_MirrorHoldsNoCopyOfItself ==
    MirrorBuilt =>
        LET src == FolderToPublish(Parse(cfg0))
            tgt == TargetDir(Parse(cfg0))
        IN /\ \A p \in DOMAIN files \cup dirs :
                 IsPrefix(tgt, p) => FIXED_REFS_DIR \notin Range(Relative(tgt, p))
           /\ \A p \in DOMAIN files :
                 (IsPrefix(src, p) /\ ~IsPrefix(tgt, p))
                     => tgt \o Relative(src, p) \in DOMAIN files
           /\ \A d \in dirs :
                 (IsPrefix(src, d) /\ d # src /\ ~IsPrefix(tgt, d))
                     => tgt \o Relative(src, d) \in dirs

\* a mirror built over the mirror directory an earlier run left behind
C21_Witness ==
    /\ MirrorBuilt
    /\ fixedFolder \in dirs0
    /\ TargetDir(Parse(cfg0)) = fixedFolder
    /\ <<FIXED_REFS_DIR, "z.md">> \in DOMAIN files
    /\ <<FIXED_REFS_DIR, "sub", "c.md">> \in DOMAIN files

\* the content type a submitted document is created with: connie-content-type,
\* "page" when the document names none
SubmittedType(doc) == IF Truthy(doc.fm.ctype) THEN doc.fm.ctype ELSE "page"

\* the documents the n-th publish invocation of the run was given
GivenDocs(n) == published[n].given.docs

\* C24 as stated: every document submitted to a publish invocation has the
\* content type "blogpost" if and only if its blog-post-date is set; a
\* document without a date is submitted as "page".
C24_BlogpostIffDate ==
    \A n \in 1..Len(published) : \A r \in DOMAIN GivenDocs(n) :
        SubmittedType(GivenDocs(n)[r]) = "blogpost"
            <=> Truthy(GivenDocs(n)[r].fm.blogDate)

\* C24, amended: a submitted document with a blog-post-date has the content
\* type "blogpost"; one without a date has the content type its original
\* names, and "page" when the original names none.
C24_DateForcesBlogpost ==
    \A n \in 1..Len(published) : \A r \in DOMAIN GivenDocs(n) :
        LET doc == GivenDocs(n)[r]
            named == IF OriginalOf(r) \in DOMAIN files0
                     THEN files0[OriginalOf(r)].fm.ctype ELSE NoVal
        IN /\ Truthy(doc.fm.blogDate) => SubmittedType(doc) = "blogpost"
           /\ ~Truthy(doc.fm.blogDate) =>
                 SubmittedType(doc) = IF Truthy(named) THEN named ELSE "page"

\* a publish invocation was given a dated document that names no content
\* type, and an undated one
C24_Witness ==
    \E n \in 1..Len(published) :
        /\ <<"a.md">> \in DOMAIN GivenDocs(n)
        /\ <<"sub", "c.md">> \in DOMAIN GivenDocs(n)
        /\ Truthy(GivenDocs(n)[<<"a.md">>].fm.blogDate)
        /\ files0[<<"a.md">>].fm.ctype = NoVal
        /\ ~Truthy(GivenDocs(n)[<<"sub", "c.md">>].fm.blogDate)
        /\ GivenDocs(n)[<<"a.md">>].fm.ctype = "blogpost"

\* a publish invocation has just ended
JustPublished ==
    Len(steps) > 0 /\ steps[Len(steps)] \in {"publish", "publish_failed"}

\* C25: every publish invocation happens while the configuration's content
\* root points at the mirror, and the mirror exists and has been through map
\* building and link rewriting since it was built: it holds the copy of every
\* source document, every identified document of it is in the map and no link
\* the map resolves is left; the publisher is never run on the original tree
\* or on a mirror that has not been rewritten.
C25_PublishOnlyRewrittenMirror ==
    JustPublished =>
        LET g == published[Len(published)].given
            i == Len(steps)
        IN /\ g.contentRoot = FixedFolderPath
           /\ g.rootExists
           /\ \/ steps[i - 1] = "refs"
              \/ i > 2 /\ steps[i - 1] = "repoint" /\ steps[i - 2] = "refs"
           /\ \A p \in Sources0 :
                 Relative(FolderToPublish(Parse(cfg0)), p) \in DOMAIN g.docs
           /\ \A r \in DOMAIN g.docs :
                 /\ g.docs[r].fm.pageId > 0
                       => MapHas(builtMap, normalizePath(StripMd(r)))
                 /\ \A k \in 1..Len(g.docs[r].links) :
                       g.docs[r].links[k].url.kind = "local"
                           => FirstMatch(builtMap,
                                         pathVariations(g.docs[r].links[k].url.segs,
                                                        PathDirname(r))) = 0

\* C26: if the first publish invocation fails, the identifier extraction
\* never runs and no original document is modified: the original tree is as
\* it was before the run.
C26_FailedFirstPublishKeepsOriginals ==
    FirstPublishFailed =>
        /\ ~Merged
        /\ ~hasNewIds
        /\ OriginalTree = [p \in Originals0 |-> files0[p]]

\* the run of a folder with a document never published has ended after its
\* first publish failed
C26_Witness ==
    /\ RunEnded
    /\ FirstPublishFailed
    /\ exitStatus = 1
    /\ files0[<<"a.md">>].fm.pageId = 0

\* C27: each time the publisher is invoked, the documents of the mirror are
\* the documents of the source tree, the mirror directory left aside; files
\* an earlier failed or interrupted run left in a mirror are not published.
C27_MirrorHoldsSourceDocuments ==
    \A n \in 1..Len(published) :
        DOMAIN GivenDocs(n)
            = {Relative(FolderToPublish(Parse(cfg0)), p) : p \in Sources0}

\* C28: a publisher that ends abnormally, which includes being killed by a
\* signal (exit code null), is reported as a failed invocation: the
\* orchestrator never takes it for a success and never extracts identifiers
\* from its output.
C28_AbnormalEndIsFailure ==
    \A n \in 1..Len(published) :
        published[n].ended.code # "0" =>
            /\ ~published[n].ok
            /\ n = 1 => ~Merged

\* the second phase of the run has failed: the mirror rebuild or the second
\* publish
SecondPhaseFailed ==
    \E i \in 1..Len(steps) : \E j \in (i + 1)..Len(steps) :
        steps[i] = "merge" /\ steps[j] \in {"refs_failed", "publish_failed"}

\* the original tree as the identifier merge of the run wrote it
MergedTree ==
    LET fs == updatePageIds([files |-> files0, dirs |-> dirs0], published[1].out)
    IN [p \in Originals0 |-> fs.files[p]]

\* C29: if the second publish or the mirror rebuild before it fails, the
\* identifiers merged into the original documents after the first publish
\* remain: the originals stay as the merge wrote them through the cleanup,
\* which restores the configuration and removes the mirror only.
C29_MergedIdsSurviveSecondFailure ==
    SecondPhaseFailed => OriginalTree = MergedTree

\* a run whose merge gave b.md an identifier has ended after its second
\* publish failed
C29_Witness ==
    /\ RunEnded
    /\ SecondPhaseFailed
    /\ Len(published) = 2
    /\ ~published[2].ok
    /\ files0[<<"b.md">>].fm.pageId = 0
    /\ files[<<"b.md">>].fm.pageId > 0

\* the order of the positions of a run
PcRank(p) ==
    CASE p = "refs" -> 1
      [] p = "publish" -> 2
      [] p = "exec1" -> 3
      [] p = "merge" -> 4
      [] p = "phase2" -> 5
      [] p = "exec2" -> 6
      [] p = "pub_finally" -> 7
      [] p = "cli_finally" -> 8
      [] OTHER -> 0

\* C30: provided every publish invocation and every file operation returns,
\* every run that has started reaches its end (exit status 0 or 1) and has
\* been through the cleanup of runCLI when it does; a run only moves forward
\* through its positions, so none is entered twice.
C30_RunTerminates ==
    /\ (pc # "idle") ~> (pc = "idle")
    /\ [][IF pc = "idle" THEN pc' = "refs"
          ELSE pc' = "idle" \/ PcRank(pc') > PcRank(pc)]_vars
    /\ [](RunEnded =>
            /\ exitStatus \in {0, 1}
            /\ steps[Len(steps)] \in {"cli_cleanup", "cli_cleanup_failed"})

\* the second run of the tool has ended after two publish invocations
C30_Witness ==
    /\ RunEnded
    /\ runs = 2
    /\ exitStatus = 0
    /\ Len(published) = 2
    /\ Count(steps, "refs") = 2

----------------------------------------------------------------------------
(* Properties of the link rewriting, continued (TreeSpec) *)

\* C22: link rewriting is idempotent: for every document, identifier map and
\* configuration, applying the rewriter to the rewriter's output changes no
\* link.
C22_RewritingIdempotent ==
    [][(pc = "fixed" /\ pc' = "refixed") => files' = files]_vars

\* the second rewriting has run over a tree whose links the first rewrote, in
\* a configuration without a base URL
C22_Witness ==
    /\ pc = "refixed"
    /\ Parse(cfgFile).confluenceBaseUrl = NoVal
    /\ \E p \in DOMAIN files :
          files0[p].links[1].url.kind = "local" /\ files[p].links[1].url.kind = "wiki"

----------------------------------------------------------------------------
(* Properties of the frontmatter store (MatterSpec) *)

\* C23 as stated: parsing the serialization of a frontmatter mapping of
\* scalar values and a body without the delimiter returns that mapping and
\* that body, also when the body begins or ends with whitespace.
C23_RoundTripExact ==
    pc = "parsed" =>
        parsed = [frontmatter |-> source.fm, content |-> source.body]

AllWhitespace(str) == \A i \in 1..Len(str) : Whitespace(str[i])

\* C23, amended: parsing the serialization returns the mapping, and the body
\* less the whitespace it begins and ends with; so it returns the body itself
\* exactly when the body neither begins nor ends with whitespace.
C23_RoundTripUpToTrim ==
    pc = "parsed" =>
        /\ parsed.frontmatter = source.fm
        /\ \E i \in 0..Len(source.body) : \E j \in i..Len(source.body) :
              /\ AllWhitespace(SubSeq(source.body, 1, i))
              /\ AllWhitespace(SubSeq(source.body, j + 1, Len(source.body)))
              /\ parsed.content = SubSeq(source.body, i + 1, j)
              /\ parsed.content # <<>> =>
                    /\ ~Whitespace(Head(parsed.content))
                    /\ ~Whitespace(parsed.content[Len(parsed.content)])

\* a body that begins with whitespace, written under a frontmatter with a
\* page id, has been parsed back
C23_Witness ==
    /\ pc = "parsed"
    /\ "connie-page-id" \in DOMAIN source.fm
    /\ source.body # <<>>
    /\ Whitespace(Head(source.body))
    /\ parsed.content # <<>>

====
